---- MODULE Spec2Model ----
(***************************************************************************)
(* BezierTS: the BezierCurve animator of src/index.ts and the Heartbeat    *)
(* signal it subscribes to.  Numbers are exact rationals <<n, d>> in       *)
(* lowest terms with d > 0; a Vector3 is a triple of such numbers; an      *)
(* absent optional Vector3 (undefined) is the empty tuple; an undefined    *)
(* connection is 0 and a live RBXScriptConnection is its positive id.      *)
(***************************************************************************)
EXTENDS Integers, Sequences, FiniteSets, TLC

VARIABLES p0, p1, p2, p3, duration, t, position, connection, wantToStop,
          Heartbeat, hist, ref, margs, mres

vars == <<p0, p1, p2, p3, duration, t, position, connection, wantToStop,
          Heartbeat, hist, ref, margs, mres>>

(* ------------------------------ bounds --------------------------------- *)
MaxPlays == 3        \* play() calls in one behaviour
MaxDuration == 2     \* durations 1 .. MaxDuration seconds
MaxDtSteps == 4      \* a tick delta is k quarters of a second, k in 0 .. MaxDtSteps
TickCap == 5         \* hist.steady counts the ticks of a run up to here
MaxCoord == 1        \* coordinates of the points of the curve-function check

(* ------------------------------ numbers -------------------------------- *)
Abs(n) == IF n < 0 THEN -n ELSE n

RECURSIVE GCD(_, _)
GCD(a, b) == IF b = 0 THEN a ELSE GCD(b, a % b)

Rat(n, d) ==
    LET g == GCD(Abs(n), Abs(d))
        s == IF d < 0 THEN -1 ELSE 1
    IN  <<(s * n) \div g, (s * d) \div g>>

Zero == <<0, 1>>
One == <<1, 1>>
Quarter == <<1, 4>>
Num(n) == <<n, 1>>

RAdd(a, b) == Rat(a[1] * b[2] + b[1] * a[2], a[2] * b[2])
RSub(a, b) == Rat(a[1] * b[2] - b[1] * a[2], a[2] * b[2])
RMul(a, b) == Rat(a[1] * b[1], a[2] * b[2])
RDiv(a, b) == Rat(a[1] * b[2], a[2] * b[1])
RLe(a, b) == a[1] * b[2] <= b[1] * a[2]
RLt(a, b) == a[1] * b[2] < b[1] * a[2]

RECURSIVE RPow(_, _)
RPow(a, k) == IF k = 0 THEN One ELSE RMul(a, RPow(a, k - 1))

\* math.clamp(x, min, max)
clamp(x, lo, hi) == IF RLt(x, lo) THEN lo ELSE IF RLt(hi, x) THEN hi ELSE x

(* ------------------------------ Vector3 -------------------------------- *)
Vec(x, y, z) == <<Num(x), Num(y), Num(z)>>
mul(v, k) == <<RMul(v[1], k), RMul(v[2], k), RMul(v[3], k)>>
add(v, w) == <<RAdd(v[1], w[1]), RAdd(v[2], w[2]), RAdd(v[3], w[3])>>

undefined == <<>>
Present(p) == p # undefined

(* --------------------------- curve functions --------------------------- *)
\* linearBezier with the two end points exchanged.
linearBezier_swapped(tt, q0, q1) ==
    add(mul(q1, RSub(One, tt)), mul(q0, tt))

linearBezier(tt, q0, q1) ==
    add(mul(q0, RSub(One, tt)), mul(q1, tt))

quadraticBezier(tt, q0, q1, q2) ==
    LET oneMinusT == RSub(One, tt)
    IN  add(add(mul(q0, RMul(oneMinusT, oneMinusT)),
                mul(q1, RMul(RMul(Num(2), oneMinusT), tt))),
            mul(q2, RMul(tt, tt)))

cubicBezier(tt, q0, q1, q2, q3) ==
    LET oneMinusT == RSub(One, tt)
    IN  add(add(add(mul(q0, RPow(oneMinusT, 3)),
                    mul(q1, RMul(RMul(Num(3), RPow(oneMinusT, 2)), tt))),
                mul(q2, RMul(RMul(Num(3), oneMinusT), RPow(tt, 2)))),
            mul(q3, RPow(tt, 3)))

(* ----------------------------- inputs ---------------------------------- *)
\* BezierPositions objects handed to the constructor: the README's linear
\* and quadratic examples, a cubic curve, and p3 given without p2.
Curves ==
    { [p0 |-> Vec(0, 0, 0), p1 |-> Vec(0, 50, 0), p2 |-> undefined, p3 |-> undefined],
      [p0 |-> Vec(0, 0, 0), p1 |-> Vec(20, 50, 0), p2 |-> Vec(40, 0, 0), p3 |-> undefined],
      [p0 |-> Vec(10, 20, 30), p1 |-> Vec(20, 50, 0), p2 |-> Vec(40, 0, 0), p3 |-> Vec(0, 10, 60)],
      [p0 |-> Vec(10, 20, 30), p1 |-> Vec(0, 50, 0), p2 |-> undefined, p3 |-> Vec(40, 0, 0)] }

Durations == { Num(k) : k \in 1 .. MaxDuration }
Deltas == { RMul(Num(k), Quarter) : k \in 0 .. MaxDtSteps }

\* What the caller's completion callback does when it is invoked.
CallbackBodies == {"return", "play", "stop", "throw"}

(* ------------------------- the animator object ------------------------- *)
\* The mutable part of a BezierCurve together with the Heartbeat signal's
\* live connections and the history of the run.
Self ==
    [t |-> t, position |-> position, connection |-> connection,
     wantToStop |-> wantToStop, Heartbeat |-> Heartbeat, hist |-> hist]

\* History: plays = play() calls so far (the k-th call's callback is token k),
\* ignored = tokens of play() calls that returned at the guard, runTok = token
\* of the play() that started the latest run, runCb = that play() was given a
\* callback, log = callback invocations in order, connects / disconnects = Connect and Disconnect calls on Heartbeat,
\* elapsed = sum of the deltas handled by the latest run, stopCalled = stop()
\* was called since the latest run started, steady = 0 before the latest run's
\* first tick, k when it has handled k ticks and each had a delta of 0.25, and
\* -1 otherwise (or past TickCap), raised = the latest run's callback raised
\* an error, inner = the latest play() call was made from inside a callback.
HistInit ==
    [plays |-> 0, ignored |-> {}, runTok |-> 0, runCb |-> FALSE, log |-> <<>>, connects |-> 0,
     disconnects |-> 0, elapsed |-> Zero, stopCalled |-> FALSE, steady |-> 0,
     raised |-> FALSE, inner |-> FALSE]

\* RunService.Heartbeat.Connect(handler): the handler closes over callback.
Connect(s, id, callback, tok) ==
    [s EXCEPT !.Heartbeat = @ \cup {[id |-> id, callback |-> callback, tok |-> tok]},
              !.hist.connects = id]

\* connection?.Disconnect()
Disconnect(s, id) ==
    IF id = 0 THEN s
    ELSE [s EXCEPT !.Heartbeat = {c \in @ : c.id # id},
                   !.hist.disconnects =
                       IF \E c \in s.Heartbeat : c.id = id THEN @ + 1 ELSE @]

\* play() without the early return on a live connection.
play_noGuard(s, callback) ==
    LET tok == s.hist.plays + 1
        s1 == [s EXCEPT !.hist.plays = tok, !.hist.inner = FALSE]
        id == s1.hist.connects + 1
        s2 == [s1 EXCEPT !.t = Zero,
                         !.connection = id,
                         !.hist.runTok = tok,
                         !.hist.runCb = callback,
                         !.hist.elapsed = Zero,
                         !.hist.stopCalled = FALSE,
                         !.hist.steady = 0,
                         !.hist.raised = FALSE]
    IN  Connect(s2, id, callback, tok)

\* play() that also puts position back to p0.
play_resetsPosition(s, callback) ==
    LET tok == s.hist.plays + 1
        s1 == [s EXCEPT !.hist.plays = tok, !.hist.inner = FALSE]
    IN  IF s1.connection # 0
        THEN [s1 EXCEPT !.hist.ignored = @ \cup {tok}]
        ELSE LET id == s1.hist.connects + 1
                 s2 == [s1 EXCEPT !.t = Zero,
                                  !.position = p0,
                                  !.connection = id,
                                  !.hist.runTok = tok,
                                  !.hist.runCb = callback,
                                  !.hist.elapsed = Zero,
                                  !.hist.stopCalled = FALSE,
                                  !.hist.steady = 0,
                                  !.hist.raised = FALSE]
             IN  Connect(s2, id, callback, tok)

\* play(callback?): callback is TRUE when a function is given.
play(s, callback) ==
    LET tok == s.hist.plays + 1
        s1 == [s EXCEPT !.hist.plays = tok, !.hist.inner = FALSE]
    IN  IF s1.connection # 0
        THEN [s1 EXCEPT !.hist.ignored = @ \cup {tok}]
        ELSE LET id == s1.hist.connects + 1
                 s2 == [s1 EXCEPT !.t = Zero,
                                  !.connection = id,
                                  !.hist.runTok = tok,
                                  !.hist.runCb = callback,
                                  !.hist.elapsed = Zero,
                                  !.hist.stopCalled = FALSE,
                                  !.hist.steady = 0,
                                  !.hist.raised = FALSE]
             IN  Connect(s2, id, callback, tok)

\* stop() that also disconnects at once.
stop_immediate(s) ==
    [Disconnect(s, s.connection) EXCEPT !.connection = 0,
                                        !.wantToStop = TRUE,
                                        !.hist.stopCalled = TRUE]

stop(s) ==
    [s EXCEPT !.wantToStop = TRUE, !.hist.stopCalled = TRUE]

\* advance without math.clamp.
advance_noClamp(s, dt) ==
    [s EXCEPT !.t = RAdd(s.t, RDiv(dt, duration)),
              !.hist.elapsed = RAdd(@, dt),
              !.hist.steady = IF @ >= 0 /\ @ < TickCap /\ dt = Quarter
                              THEN @ + 1 ELSE -1]

\* this.t = math.clamp(this.t + dt / this.duration, 0, 1)
advance(s, dt) ==
    [s EXCEPT !.t = clamp(RAdd(s.t, RDiv(dt, duration)), Zero, One),
              !.hist.elapsed = RAdd(@, dt),
              !.hist.steady = IF @ >= 0 /\ @ < TickCap /\ dt = Quarter
                              THEN @ + 1 ELSE -1]

\* evaluate that takes the line p0-p1 whenever p2 is absent.
evaluate_linearWithoutP2(s) ==
    LET a == IF ~Present(p2)
             THEN linearBezier(s.t, p0, p1) ELSE s.position
        b == IF Present(p2) /\ Present(p3)
             THEN cubicBezier(s.t, p0, p1, p2, p3) ELSE a
        c == IF Present(p2) /\ ~Present(p3)
             THEN quadraticBezier(s.t, p0, p1, p2) ELSE b
    IN  [s EXCEPT !.position = c]

\* evaluate whose last conditional tests p2 only.
evaluate_quadraticLast(s) ==
    LET a == IF ~Present(p2) /\ ~Present(p3)
             THEN linearBezier(s.t, p0, p1) ELSE s.position
        b == IF Present(p2) /\ Present(p3)
             THEN cubicBezier(s.t, p0, p1, p2, p3) ELSE a
        c == IF Present(p2)
             THEN quadraticBezier(s.t, p0, p1, p2) ELSE b
    IN  [s EXCEPT !.position = c]

\* The three conditionals that pick the curve function.
evaluate(s) ==
    LET a == IF ~Present(p2) /\ ~Present(p3)
             THEN linearBezier(s.t, p0, p1) ELSE s.position
        b == IF Present(p2) /\ Present(p3)
             THEN cubicBezier(s.t, p0, p1, p2, p3) ELSE a
        c == IF Present(p2) /\ ~Present(p3)
             THEN quadraticBezier(s.t, p0, p1, p2) ELSE b
    IN  [s EXCEPT !.position = c]

\* if (callback) callback(arg): body.does is what the callback does, and
\* body.with the callback it passes when it calls play().
invoke(s, c, arg, body) ==
    IF ~c.callback THEN s
    ELSE LET s1 == [s EXCEPT !.hist.log = Append(@, [tok |-> c.tok, arg |-> arg])]
         IN  CASE body.does = "play" ->
                      [play(s1, body.with) EXCEPT !.hist.inner = TRUE]
               [] body.does = "stop" -> stop(s1)
               [] body.does = "throw" -> [s1 EXCEPT !.hist.raised = TRUE]
               [] OTHER -> s1

\* finish that looks at t only.
finish_ignoresStop(s, c, body) ==
    IF RLe(One, s.t)
    THEN LET s1 == [Disconnect(s, s.connection) EXCEPT !.connection = 0]
         IN  IF s1.wantToStop
             THEN invoke(s1, c, FALSE, body)
             ELSE invoke(s1, c, TRUE, body)
    ELSE s

\* finish that clears the handle without disconnecting it.
finish_noDisconnect(s, c, body) ==
    IF RLe(One, s.t) \/ s.wantToStop
    THEN LET s1 == [s EXCEPT !.connection = 0]
         IN  IF s1.wantToStop
             THEN invoke(s1, c, FALSE, body)
             ELSE invoke(s1, c, TRUE, body)
    ELSE s

\* finish that reports whether t reached 1.
finish_argFromT(s, c, body) ==
    IF RLe(One, s.t) \/ s.wantToStop
    THEN LET s1 == [Disconnect(s, s.connection) EXCEPT !.connection = 0]
         IN  IF RLe(One, s1.t)
             THEN invoke(s1, c, TRUE, body)
             ELSE invoke(s1, c, FALSE, body)
    ELSE s

\* finish that invokes the callback first and releases the connection after
\* it has returned; a callback that raises ends the handler there.
finish_callbackFirst(s, c, body) ==
    IF RLe(One, s.t) \/ s.wantToStop
    THEN LET s1 == IF s.wantToStop
                   THEN invoke(s, c, FALSE, body)
                   ELSE invoke(s, c, TRUE, body)
         IN  IF c.callback /\ body.does = "throw" THEN s1
             ELSE [Disconnect(s1, s1.connection) EXCEPT !.connection = 0]
    ELSE s

\* if (this.t >= 1 || this.wantToStop) { ... }
finish(s, c, body) ==
    IF RLe(One, s.t) \/ s.wantToStop
    THEN LET s1 == [Disconnect(s, s.connection) EXCEPT !.connection = 0]
         IN  IF s1.wantToStop
             THEN invoke(s1, c, FALSE, body)
             ELSE invoke(s1, c, TRUE, body)
    ELSE s

\* handler that computes the position before it advances t.
handler_evalFirst(s, c, dt, body) ==
    finish(advance(evaluate(s), dt), c, body)

\* handler that looks at the stop request before it does anything else.
handler_stopFirst(s, c, dt, body) ==
    IF s.wantToStop
    THEN finish([s EXCEPT !.hist.steady =
                              IF @ >= 0 /\ @ < TickCap /\ dt = Quarter
                              THEN @ + 1 ELSE -1], c, body)
    ELSE finish(evaluate(advance(s, dt)), c, body)

\* The Heartbeat handler of connection c, run with delta dt.
handler(s, c, dt, body) ==
    finish(evaluate(advance(s, dt)), c, body)

Min(S) == CHOOSE x \in S : \A y \in S : x <= y

\* The signal fires the handlers connected when the tick began, oldest first,
\* skipping one disconnected meanwhile.
RECURSIVE Fire(_, _, _, _)
Fire(s, pending, dt, body) ==
    IF pending = {} THEN s
    ELSE LET id == Min(pending)
             live == {c \in s.Heartbeat : c.id = id}
             s1 == IF live = {} THEN s
                   ELSE handler(s, CHOOSE c \in live : TRUE, dt, body)
         IN  Fire(s1, pending \ {id}, dt, body)

\* One Heartbeat of the host.
tick(s, dt, body) ==
    Fire(s, {c.id : c \in s.Heartbeat}, dt, body)

Assign(s) ==
    /\ t' = s.t
    /\ position' = s.position
    /\ connection' = s.connection
    /\ wantToStop' = s.wantToStop
    /\ Heartbeat' = s.Heartbeat
    /\ hist' = s.hist

(* ----------------------------- behaviours ------------------------------ *)
\* new BezierCurve(duration, positions)
Constructed ==
    /\ \E c \in Curves : p0 = c.p0 /\ p1 = c.p1 /\ p2 = c.p2 /\ p3 = c.p3
    /\ duration \in Durations
    /\ t = Zero
    /\ position = p0
    /\ connection = 0
    /\ wantToStop = FALSE
    /\ Heartbeat = {}
    /\ hist = HistInit

Init ==
    /\ Constructed
    /\ ref = undefined
    /\ margs = undefined
    /\ mres = undefined

Play ==
    /\ hist.plays < MaxPlays
    /\ \E callback \in BOOLEAN : Assign(play(Self, callback))
    /\ UNCHANGED <<p0, p1, p2, p3, duration, ref, margs, mres>>

Stop ==
    /\ Assign(stop(Self))
    /\ UNCHANGED <<p0, p1, p2, p3, duration, ref, margs, mres>>

Bodies ==
    { [does |-> d, with |-> FALSE] : d \in CallbackBodies } \cup
    { [does |-> "play", with |-> TRUE] }

\* The callback's body matters only on a tick that invokes a callback.
Returns == [does |-> "return", with |-> FALSE]
BodiesAt(s, dt) ==
    IF tick(s, dt, Returns).hist.log = s.hist.log THEN {Returns} ELSE Bodies

Tick ==
    /\ \E dt \in Deltas : \E body \in BodiesAt(Self, dt) :
          /\ body.does = "play" => hist.plays < MaxPlays
          /\ Assign(tick(Self, dt, body))
    /\ UNCHANGED <<p0, p1, p2, p3, duration, ref, margs, mres>>

Next == Play \/ Stop \/ Tick

Spec == Init /\ [][Next]_vars

TypeOK ==
    /\ connection \in 0 .. MaxPlays
    /\ wantToStop \in BOOLEAN
    /\ Len(hist.log) <= MaxPlays

(* ------------- a host that keeps delivering positive deltas ------------ *)
PositiveDeltas == Deltas \ {Zero}

TickPositive ==
    /\ \E dt \in PositiveDeltas : \E body \in BodiesAt(Self, dt) :
          /\ body.does = "play" => hist.plays < MaxPlays
          /\ Assign(tick(Self, dt, body))
    /\ UNCHANGED <<p0, p1, p2, p3, duration, ref, margs, mres>>

LiveNext == Play \/ Stop \/ TickPositive

\* A step of Next that is neither a play() nor a stop() call is a tick.
TickStep == ~Play /\ ~Stop

\* Weak fairness of the tick, WF_vars(TickPositive), written out: a tick
\* with a positive delta changes the state exactly when a handler is
\* connected (the handler adds the delta to the time it has seen), so the
\* tick is enabled exactly when Heartbeat # {}, and the steps of LiveNext
\* that change the state and are no play() or stop() call are its ticks.
SpecLive ==
    /\ Init /\ [][LiveNext]_vars
    /\ ([]<>(Heartbeat = {}) \/ []<><<TickStep>>_vars)

(* ------------- two animators, one spared the stop() while Idle --------- *)
\* ref is a second BezierCurve built from the same arguments.  It receives
\* every play(), every tick and every stop() made during a run; a stop()
\* made while the first animator is Idle reaches the first animator only.
\* Of ref's history only the calls and the callback log are kept, and the
\* comparison ends at the first visible difference.
Shadow(s) ==
    [s EXCEPT !.hist.elapsed = Zero, !.hist.stopCalled = FALSE,
              !.hist.steady = 0, !.hist.raised = FALSE, !.hist.inner = FALSE]

Visible(s) ==
    [t |-> s.t, position |-> s.position, log |-> s.hist.log]

NIInit ==
    /\ Constructed
    /\ ref = Self
    /\ margs = undefined
    /\ mres = undefined

NIPlay ==
    /\ Visible(ref) = Visible(Self)
    /\ hist.plays < MaxPlays
    /\ \E callback \in BOOLEAN :
          /\ Assign(play(Self, callback))
          /\ ref' = Shadow(play(ref, callback))
    /\ UNCHANGED <<p0, p1, p2, p3, duration, margs, mres>>

NIStop ==
    /\ Visible(ref) = Visible(Self)
    /\ Assign(stop(Self))
    /\ ref' = IF connection = 0 THEN ref ELSE Shadow(stop(ref))
    /\ UNCHANGED <<p0, p1, p2, p3, duration, margs, mres>>

NITick ==
    /\ Visible(ref) = Visible(Self)
    /\ \E dt \in Deltas : \E body \in {b \in BodiesAt(Self, dt) : b.does # "stop"} :
          /\ body.does = "play" => hist.plays < MaxPlays
          /\ Assign(tick(Self, dt, body))
          /\ ref' = Shadow(tick(ref, dt, body))
    /\ UNCHANGED <<p0, p1, p2, p3, duration, margs, mres>>

NINext == NIPlay \/ NIStop \/ NITick

SpecNI == NIInit /\ [][NINext]_vars

(* ------------------ the curve functions on their own ------------------- *)
MathPoints ==
    { Vec(x, 50 * y, x - y) : x \in -MaxCoord .. MaxCoord, y \in 0 .. 1 }
MathTs == { RMul(Num(k), Quarter) : k \in 0 .. 4 }

MathInit ==
    /\ margs \in [t : MathTs, p0 : MathPoints, p1 : MathPoints,
                  p2 : MathPoints, p3 : MathPoints]
    /\ mres = undefined
    /\ p0 = margs.p0 /\ p1 = margs.p1 /\ p2 = margs.p2 /\ p3 = margs.p3
    /\ duration = One
    /\ t = Zero
    /\ position = p0
    /\ connection = 0
    /\ wantToStop = FALSE
    /\ Heartbeat = {}
    /\ hist = HistInit
    /\ ref = undefined

EvalLinear ==
    /\ mres' = [fn |-> "linear",
                value |-> linearBezier(margs.t, margs.p0, margs.p1)]
    /\ UNCHANGED <<p0, p1, p2, p3, duration, t, position, connection,
                   wantToStop, Heartbeat, hist, ref, margs>>

EvalQuadratic ==
    /\ mres' = [fn |-> "quadratic",
                value |-> quadraticBezier(margs.t, margs.p0, margs.p1, margs.p2)]
    /\ UNCHANGED <<p0, p1, p2, p3, duration, t, position, connection,
                   wantToStop, Heartbeat, hist, ref, margs>>

EvalCubic ==
    /\ mres' = [fn |-> "cubic",
                value |-> cubicBezier(margs.t, margs.p0, margs.p1, margs.p2, margs.p3)]
    /\ UNCHANGED <<p0, p1, p2, p3, duration, t, position, connection,
                   wantToStop, Heartbeat, hist, ref, margs>>

MathNext == EvalLinear \/ EvalQuadratic \/ EvalCubic

SpecMath == MathInit /\ [][MathNext]_vars

(* ------------------------------- claims -------------------------------- *)
CallsOf(tok) == SelectSeq(hist.log, LAMBDA e : e.tok = tok)
LiveIn(H, id) == \E c \in H : c.id = id
WellFormed == Present(p3) => Present(p2)

\* C1: with positive duration, a run started by play(cb) during which stop()
\* is not called has, once the deltas delivered since that play() sum to at
\* least duration, invoked cb exactly once, with true, and t = 1; and t never
\* exceeds 1.
C1_Claim ==
    /\ RLe(t, One)
    /\ (hist.runTok # 0 /\ hist.runCb /\ ~hist.stopCalled
            /\ RLe(duration, hist.elapsed))
          => /\ t = One
             /\ CallsOf(hist.runTok) = <<[tok |-> hist.runTok, arg |-> TRUE]>>

\* C2: a tick delivered to a run during which stop() was called ends the run:
\* the run's callback is invoked once with false and its connection is
\* released; a tick delivered while Idle changes neither t nor position and
\* invokes no callback.
C2_StopEndsRunOnNextTick ==
    [][TickStep =>
        /\ (connection # 0 /\ hist.stopCalled) =>
              /\ ~LiveIn(Heartbeat', connection)
              /\ connection' # connection
              /\ hist'.disconnects = hist.disconnects + 1
              /\ hist'.log = IF hist.runCb
                             THEN Append(hist.log, [tok |-> hist.runTok, arg |-> FALSE])
                             ELSE hist.log
        /\ connection = 0 =>
              /\ t' = t
              /\ position' = position
              /\ connection' = 0
              /\ hist'.log = hist.log]_vars

\* A run stopped after its first tick has ended short of t = 1 with its
\* callback told false.
C2_Witness ==
    /\ connection = 0
    /\ hist.stopCalled
    /\ RLt(t, One)
    /\ RLt(Zero, hist.elapsed)
    /\ Heartbeat = {}
    /\ CallsOf(hist.runTok) = <<[tok |-> hist.runTok, arg |-> FALSE]>>

\* C3: a play() that starts a run leaves t = 0 and wantToStop = false, and a
\* run ends only when its t has reached 1 or stop() was called after its play().
C3_Claim ==
    /\ [][hist'.connects # hist.connects => (t' = Zero /\ ~wantToStop')]_vars
    /\ []((hist.runTok # 0 /\ connection = 0) => (t = One \/ hist.stopCalled))

\* C4: play() while a run is in progress changes nothing of the animator or
\* of the Heartbeat connections, and the callback it was given is never invoked.
C4_PlayWhileRunningIsNoOp ==
    /\ [][(Play /\ connection # 0) =>
            /\ t' = t
            /\ position' = position
            /\ wantToStop' = wantToStop
            /\ connection' = connection
            /\ Heartbeat' = Heartbeat
            /\ hist'.connects = hist.connects
            /\ hist'.log = hist.log]_vars
    /\ [](\A i \in 1 .. Len(hist.log) : hist.log[i].tok \notin hist.ignored)

\* A play() was ignored during the latest run, and that run has since ended
\* by invoking its own callback.
C4_Witness ==
    /\ \E k \in hist.ignored : k > hist.runTok
    /\ Len(CallsOf(hist.runTok)) = 1
    /\ connection = 0

\* C5: the animator that received a stop() while Idle shows the same t, the
\* same position and the same callback invocations as the one that did not.
C5_Claim == Visible(Self) = Visible(ref)

\* C6: the callback of a play() is invoked at most once, and only by a tick
\* that ends the run that play() started: not by play(), not by stop(), not
\* by a tick that leaves the run going, not during a later run.
C6_CallbackAtMostOnceAtEnd ==
    /\ [](\A i, j \in 1 .. Len(hist.log) :
              hist.log[i].tok = hist.log[j].tok => i = j)
    /\ [][hist'.log # hist.log =>
            /\ TickStep
            /\ connection # 0
            /\ ~LiveIn(Heartbeat', connection)
            /\ hist'.disconnects = hist.disconnects + 1
            /\ \E arg \in BOOLEAN :
                  hist'.log = Append(hist.log, [tok |-> hist.runTok, arg |-> arg])]_vars

\* Two runs have each invoked their callback, and a third play() was made.
C6_Witness ==
    /\ Len(hist.log) = 2
    /\ hist.plays = 3

\* C7: stop() sets wantToStop and nothing else: t, position, the handle and
\* the Heartbeat connections are unchanged and no callback is invoked.
C7_StopOnlySetsLatch ==
    [][Stop =>
        /\ wantToStop'
        /\ t' = t
        /\ position' = position
        /\ connection' = connection
        /\ Heartbeat' = Heartbeat
        /\ hist'.log = hist.log
        /\ hist'.disconnects = hist.disconnects]_vars

\* After stop() in the middle of a run and before the next tick: still
\* connected, position as the last tick left it.
C7_Witness ==
    /\ connection # 0
    /\ LiveIn(Heartbeat, connection)
    /\ hist.stopCalled
    /\ hist.steady # 0
    /\ RLt(Zero, t)
    /\ position # p0

\* C8: a tick of a run ends it exactly when the advanced t is at least 1 or
\* wantToStop is set, and the callback then receives true exactly when
\* wantToStop is not set (so false when t reaches 1 with a stop pending).
C8_EndConditionAndArgument ==
    [][(TickStep /\ connection # 0) =>
        /\ hist'.plays = hist.plays =>
              (hist'.disconnects # hist.disconnects <=> (RLe(One, t') \/ wantToStop))
        /\ hist'.plays # hist.plays => hist'.disconnects # hist.disconnects
        /\ hist'.disconnects # hist.disconnects =>
              /\ connection' # connection
              /\ hist'.log = IF hist.runCb
                             THEN Append(hist.log, [tok |-> hist.runTok, arg |-> ~wantToStop])
                             ELSE hist.log]_vars

\* A run whose t reached 1 on a tick that found a stop pending: callback false.
C8_Witness ==
    /\ connection = 0
    /\ t = One
    /\ CallsOf(hist.runTok) = <<[tok |-> hist.runTok, arg |-> FALSE]>>

\* C9: for a well-formed curve, after every tick of a run position is the
\* curve function chosen by the presence of p2 and p3, at the updated t.  For
\* duration 1, p0 = (0,0,0), p1 = (0,50,0) and ticks of 0.25, the k-th tick
\* leaves t = k/4 and position = (0, 12.5 k, 0), and the 4th invokes the
\* callback with true.
CurvePoint ==
    IF ~Present(p2) THEN linearBezier(t, p0, p1)
    ELSE IF ~Present(p3) THEN quadraticBezier(t, p0, p1, p2)
    ELSE cubicBezier(t, p0, p1, p2, p3)

ReadmeLinear ==
    /\ p0 = Vec(0, 0, 0) /\ p1 = Vec(0, 50, 0)
    /\ p2 = undefined /\ p3 = undefined
    /\ duration = One

C9_PositionFollowsCurve ==
    /\ (WellFormed /\ hist.steady # 0) => position = CurvePoint
    /\ ReadmeLinear =>
          \A k \in 1 .. 4 :
             hist.steady = k =>
                /\ t = Rat(k, 4)
                /\ position = <<Zero, Rat(25 * k, 2), Zero>>
                /\ (k = 4 /\ hist.runCb /\ ~wantToStop) =>
                      CallsOf(hist.runTok) = <<[tok |-> hist.runTok, arg |-> TRUE]>>

\* The README's linear curve after its 4th tick of 0.25, callback told true.
C9_Witness ==
    /\ ReadmeLinear
    /\ hist.steady = 4
    /\ position = <<Zero, Num(50), Zero>>
    /\ CallsOf(hist.runTok) = <<[tok |-> hist.runTok, arg |-> TRUE]>>

\* C10: at t = 0 each curve function returns p0, and at t = 1 it returns its
\* last control point: p1 (linear), p2 (quadratic), p3 (cubic).
C10_EndPoints ==
    mres # undefined =>
       /\ margs.t = Zero => mres.value = margs.p0
       /\ margs.t = One =>
             mres.value = CASE mres.fn = "linear" -> margs.p1
                            [] mres.fn = "quadratic" -> margs.p2
                            [] mres.fn = "cubic" -> margs.p3

\* A cubic evaluated at t = 1 on four different points.
C10_Witness ==
    /\ mres # undefined
    /\ mres.fn = "cubic"
    /\ margs.t = One
    /\ Cardinality({margs.p0, margs.p1, margs.p2, margs.p3}) = 4
    /\ mres.value = margs.p3

\* C11: position changes only inside a tick of a run: play() and stop() leave
\* it alone, it is p0 until the first tick of the first run, and after the
\* play() of a later run it keeps the earlier value while t is already 0.
C11_PositionOnlyChangedByTick ==
    /\ [][(Play \/ Stop) => position' = position]_vars
    /\ [][position' # position => (TickStep /\ connection # 0)]_vars
    /\ []((hist.connects <= 1 /\ hist.steady = 0) => position = p0)

\* A later run has been started and not yet ticked: t is 0 again and position
\* is still where the earlier run left it.
C11_Witness ==
    /\ hist.connects >= 2
    /\ connection # 0
    /\ hist.steady = 0
    /\ t = Zero
    /\ position # p0

\* C12: the Heartbeat signal holds at most one connection of the animator, the
\* stored handle is defined exactly when that connection is live, and every
\* run makes one Connect and one Disconnect.
C12_AtMostOneSubscription ==
    /\ Cardinality(Heartbeat) <= 1
    /\ connection # 0 <=> Heartbeat # {}
    /\ connection # 0 => LiveIn(Heartbeat, connection)
    /\ hist.connects = hist.disconnects + (IF connection # 0 THEN 1 ELSE 0)
    /\ hist.connects = hist.plays - Cardinality(hist.ignored)

\* A run started by a play() made inside the callback of the run before it.
C12_Witness ==
    /\ hist.inner
    /\ hist.connects = 2
    /\ hist.disconnects = 1
    /\ Cardinality(Heartbeat) = 1

\* C13: the tick that ends a run disconnects and clears the handle before it
\* invokes the callback, so after a tick whose callback raised an error the
\* animator is Idle and the Heartbeat signal holds no connection of it.
C13_ReleasedBeforeCallback ==
    /\ [][(TickStep /\ hist'.log # hist.log /\ hist'.raised) =>
            /\ connection' = 0
            /\ Heartbeat' = {}
            /\ hist'.disconnects = hist.disconnects + 1]_vars
    /\ [](hist.raised => (connection = 0 /\ Heartbeat = {}))

\* The latest run's callback was invoked and raised.
C13_Witness ==
    /\ hist.raised
    /\ Len(CallsOf(hist.runTok)) = 1
    /\ hist.disconnects = hist.connects

\* C14: 0 <= t <= 1 always; within a run t never decreases from tick to tick
\* and is min(1, sum of the run's deltas / duration).
RMin(a, b) == IF RLe(a, b) THEN a ELSE b
Progress == RMin(One, RDiv(hist.elapsed, duration))

C14_TIsClampedProgress ==
    /\ [](RLe(Zero, t) /\ RLe(t, One))
    /\ [](t = Progress)
    /\ [][(TickStep /\ hist'.plays = hist.plays) => RLe(t, t')]_vars

\* A run whose deltas summed to more than duration: t stopped at 1.
C14_Witness ==
    /\ RLt(duration, hist.elapsed)
    /\ t = One

\* C15: the tick that finds a stop request still advances t and recomputes
\* position before it ends the run.  For duration 1, p0 = (0,0,0),
\* p1 = (0,50,0), ticks of 0.25 and stop() after the 2nd tick, the 3rd tick
\* leaves t = 0.75 and position = (0,37.5,0) and invokes the callback with false.
CurveAt(tt) ==
    IF ~Present(p2) THEN linearBezier(tt, p0, p1)
    ELSE IF ~Present(p3) THEN quadraticBezier(tt, p0, p1, p2)
    ELSE cubicBezier(tt, p0, p1, p2, p3)

StoppedAfterSecondTick ==
    (ReadmeLinear /\ hist.steady = 3) =>
       /\ t = <<3, 4>>
       /\ position = <<Zero, <<75, 2>>, Zero>>
       /\ connection = 0 =>
             /\ hist.stopCalled
             /\ hist.runCb =>
                   CallsOf(hist.runTok) = <<[tok |-> hist.runTok, arg |-> FALSE]>>

C15_StopTickStillAdvances ==
    /\ [][(TickStep /\ connection # 0 /\ wantToStop /\ hist'.plays = hist.plays) =>
            /\ connection' = 0
            /\ hist'.elapsed # hist.elapsed => t' = Progress'
            /\ (hist'.elapsed # hist.elapsed /\ RLt(t, One)) => t' # t
            /\ WellFormed => position' = CurveAt(t')]_vars
    /\ [][StoppedAfterSecondTick']_vars

\* The README's linear curve stopped between its 2nd and 3rd tick of 0.25.
C15_Witness ==
    /\ ReadmeLinear
    /\ hist.steady = 3
    /\ connection = 0
    /\ t = <<3, 4>>
    /\ position = <<Zero, <<75, 2>>, Zero>>
    /\ CallsOf(hist.runTok) = <<[tok |-> hist.runTok, arg |-> FALSE]>>

\* C16: with p2 absent and p3 present no tick changes position, which stays
\* p0, while t advances as for any curve and the run ends with one callback.
Malformed == ~Present(p2) /\ Present(p3)

RunLive(k, cb) == \E c \in Heartbeat : c.tok = k /\ c.callback = cb
RunOver(k, cb) ==
    /\ \A c \in Heartbeat : c.tok # k
    /\ cb => Len(CallsOf(k)) = 1

C17_EveryRunEnds ==
    \A k \in 1 .. MaxPlays : \A cb \in BOOLEAN :
        RunLive(k, cb) ~> RunOver(k, cb)

\* A run that nobody stopped has gone to t = 1 and invoked its callback.
C17_Witness ==
    /\ connection = 0
    /\ Heartbeat = {}
    /\ ~wantToStop
    /\ t = One
    /\ CallsOf(hist.runTok) = <<[tok |-> hist.runTok, arg |-> TRUE]>>

\* C18: a run of a well-formed curve that ends with callback argument true
\* leaves position at the curve's last control point (p1, p2 or p3 by degree)
\* with t = 1 when the callback is invoked, and position stays at that point
\* until a tick of a later run moves it.
LastPoint == IF Present(p3) THEN p3 ELSE IF Present(p2) THEN p2 ELSE p1

C18_TrueEndsAtLastPoint ==
    /\ [][(/\ TickStep
            /\ WellFormed
            /\ Len(hist'.log) = Len(hist.log) + 1
            /\ hist'.log[Len(hist'.log)].arg) =>
            /\ position' = LastPoint
            /\ hist'.plays = hist.plays => t' = One]_vars
    /\ []((/\ WellFormed
           /\ connection = 0
           /\ CallsOf(hist.runTok) = <<[tok |-> hist.runTok, arg |-> TRUE]>>) =>
           (position = LastPoint /\ t = One))
    /\ [][(position = LastPoint /\ position' # LastPoint) =>
            (TickStep /\ connection # 0)]_vars

\* A cubic run has ended with true and a later run has been started and not
\* yet ticked: position is still p3.
C18_Witness ==
    /\ Present(p2) /\ Present(p3)
    /\ Len(hist.log) >= 1
    /\ hist.log[Len(hist.log)].arg
    /\ hist.connects >= 2
    /\ connection # 0
    /\ hist.steady = 0
    /\ t = Zero
    /\ position = p3
    /\ p3 # p0

\* C19: a play(cb2) made inside the completion callback of a run is not
\* ignored: the tick that ends the run releases its connection and leaves a
\* new run with t = 0 and exactly one connection, its own; the ended
\* run's handler is no longer connected and no run's callback is invoked
\* twice.
C19_PlayInsideCallbackStartsRun ==
    /\ [][(TickStep /\ hist'.plays # hist.plays) =>
            /\ hist'.inner
            /\ hist'.plays = hist.plays + 1
            /\ hist'.plays \notin hist'.ignored
            /\ hist'.runTok = hist'.plays
            /\ t' = Zero
            /\ hist'.disconnects = hist.disconnects + 1
            /\ hist'.connects = hist.connects + 1
            /\ connection' = hist'.connects
            /\ connection' # connection
            /\ Heartbeat' = {[id |-> hist'.connects, callback |-> hist'.runCb,
                              tok |-> hist'.plays]}]_vars
    /\ [](\A k \in 1 .. MaxPlays : Len(CallsOf(k)) <= 1)

\* The run started inside the first run's callback has run and ended in its
\* turn: each of the two callbacks was invoked once.
C19_Witness ==
    /\ hist.inner
    /\ connection = 0
    /\ Len(hist.log) = 2
    /\ hist.log[1].tok # hist.log[2].tok
    /\ hist.log[2].tok = hist.runTok

====
